---------------------------- MODULE Spec2Model ----------------------------
(***************************************************************************)
(* Request encoding layer of the buruma ZooKeeper client                   *)
(* (src/protocol/req.rs).                                                  *)
(*                                                                         *)
(* A buffer (BytesMut) is a sequence of bytes 0..255.  A string is the     *)
(* sequence of its UTF-8 bytes.  Option<T> is <<>> (None) or <<x>>         *)
(* (Some(x)).  A u32 is a pair <<hi, lo>> of 16-bit halves, so that the    *)
(* whole unsigned range is covered; i32 and i64 values are integers.       *)
(***************************************************************************)
EXTENDS Integers, Sequences, FiniteSets, TLC

VARIABLES
    cur,        \* the request value last constructed (a tagged record)
    ctor,       \* history: the constructor that built cur, and its arguments
    b,          \* the caller-owned output buffer
    b0,         \* contents of the buffer before the first write
    calls,      \* history: the values written to b, in call order
    ret,        \* result of the last write call
    chan,       \* the ordered channel of ReqPacket values
    enq,        \* history: every packet enqueued, in enqueue order
    processed,  \* history: the packets the worker handled as requests
    net,        \* the frames the worker wrote to the network
    worker      \* position of the consuming worker

vars == <<cur, ctor, b, b0, calls, ret, chan, enq, processed, net, worker>>

---------------------------------------------------------------------------
(* Bounds of the model. *)

MaxData   == 2      \* longest byte sequence used as data
MaxAcl    == 2      \* longest ACL list of a CreateRequest
MaxWrites == 2      \* most writes onto one buffer
MaxQueue  == 4      \* most packets ever enqueued on the channel

---------------------------------------------------------------------------
(* Option<T> *)

None == <<>>
Some(x) == <<x>>
IsSome(o) == Len(o) = 1
Unwrap(o) == o[1]

(* u32 values: <<hi, lo>>, the value being hi * 65536 + lo. *)
U32(hi, lo) == <<hi, lo>>
AsU32(n) == <<n \div 65536, n % 65536>>

---------------------------------------------------------------------------
(* crate::constants: the scheme tokens, Perms and CreateMode. *)

WORLD  == <<119, 111, 114, 108, 100>>          \* "world"
ANYONE == <<97, 110, 121, 111, 110, 101>>      \* "anyone"
IP     == <<105, 112>>                         \* "ip"
DIGEST == <<100, 105, 103, 101, 115, 116>>     \* "digest"

Perms_All == 31

CreateMode ==
    {"Persistent", "Ephemeral", "PersistentSequential", "EphemeralSequential",
     "Container"}

CreateMode_as_i32(m) ==
    CASE m = "Persistent"           -> 0
      [] m = "Ephemeral"            -> 1
      [] m = "PersistentSequential" -> 2
      [] m = "EphemeralSequential"  -> 3
      [] m = "Container"            -> 4

---------------------------------------------------------------------------
(* The primitive writer (trait Serializer's provided methods).  Each takes *)
(* the buffer and yields the buffer after the call.                        *)

BE16(n) == <<n \div 256, n % 256>>

\* the 4 bytes of a signed 32-bit value, two's complement, big-endian
BE32(v) ==
    <<(v \div 16777216) % 256, (v \div 65536) % 256, (v \div 256) % 256, v % 256>>

write_i32(v, buf) == buf \o BE32(v)

write_u32(v, buf) == buf \o BE16(v[1]) \o BE16(v[2])

\* values within the signed 32-bit range, sign-extended to 8 bytes
write_i64(v, buf) == buf \o BE32(IF v < 0 THEN -1 ELSE 0) \o BE32(v)

write_bool(v, buf) == buf \o <<IF v THEN 1 ELSE 0>>

write_len(n, buf) == write_i32(n, buf)

write_string(s, buf) == write_len(Len(s), buf) \o s

write_slice(d, buf) == write_len(Len(d), buf) \o d

write_slice_option(o, buf) ==
    IF IsSome(o) THEN write_slice(Unwrap(o), buf) ELSE write_i32(-1, buf)

---------------------------------------------------------------------------
(* std::net::IpAddr and its Display. *)

RECURSIVE Dec(_)
Dec(n) == IF n < 10 THEN <<48 + n>> ELSE Dec(n \div 10) \o <<48 + (n % 10)>>

HexDigit(d) == IF d < 10 THEN 48 + d ELSE 87 + d

RECURSIVE Hex(_)
Hex(n) == IF n < 16 THEN <<HexDigit(n)>> ELSE Hex(n \div 16) \o <<HexDigit(n % 16)>>

DOT   == <<46>>      \* "."
COLON == <<58>>      \* ":"

V4(a, c, d, e) == [v |-> 4, o |-> <<a, c, d, e>>]
V6(s) == [v |-> 6, s |-> s]

Ipv4_to_string(o) ==
    Dec(o[1]) \o DOT \o Dec(o[2]) \o DOT \o Dec(o[3]) \o DOT \o Dec(o[4])

\* segments s[i..j] in hex, joined by ':'
RECURSIVE fmt_subslice(_, _, _)
fmt_subslice(s, i, j) ==
    IF i > j THEN <<>>
    ELSE IF i = j THEN Hex(s[i])
    ELSE Hex(s[i]) \o COLON \o fmt_subslice(s, i + 1, j)

\* length of the run of zero segments starting at i
RECURSIVE ZeroRun(_, _)
ZeroRun(s, i) == IF i > Len(s) \/ s[i] # 0 THEN 0 ELSE 1 + ZeroRun(s, i + 1)

\* start of the first longest run of zero segments
LongestZeroStart(s) ==
    CHOOSE i \in 1..8 :
        /\ \A j \in 1..8 : ZeroRun(s, j) <= ZeroRun(s, i)
        /\ \A j \in 1..(i - 1) : ZeroRun(s, j) < ZeroRun(s, i)

Ipv6_to_string(s) ==
    IF \A i \in 1..5 : s[i] = 0 /\ s[6] = 65535
    THEN COLON \o COLON \o <<102, 102, 102, 102>> \o COLON      \* "::ffff:"
         \o Ipv4_to_string(<<s[7] \div 256, s[7] % 256, s[8] \div 256, s[8] % 256>>)
    ELSE LET z == LongestZeroStart(s)
             n == ZeroRun(s, z)
         IN  IF n > 1
             THEN fmt_subslice(s, 1, z - 1) \o COLON \o COLON
                  \o fmt_subslice(s, z + n, 8)
             ELSE fmt_subslice(s, 1, 8)

IpAddr_to_string(a) == IF a.v = 4 THEN Ipv4_to_string(a.o) ELSE Ipv6_to_string(a.s)

---------------------------------------------------------------------------
(* enum Scheme, struct ACL *)

Scheme_World == [tag |-> "World"]
Scheme_IP(addr) == [tag |-> "IP", addr |-> addr]
Scheme_Digest(s) == [tag |-> "Digest", info |-> s]

ACL(perms, scheme, id) == [t |-> "ACL", perms |-> perms, scheme |-> scheme, id |-> id]

\* mutant: the World arm writes the id field instead of ANYONE
ACL_write_id(self, buf) ==
    LET b1 == write_u32(self.perms, buf)
    IN  CASE self.scheme.tag = "World" ->
                write_string(self.id, write_string(WORLD, b1))
          [] self.scheme.tag = "IP" ->
                write_string(IpAddr_to_string(self.scheme.addr), write_string(IP, b1))
          [] self.scheme.tag = "Digest" ->
                write_string(self.scheme.info, write_string(DIGEST, b1))

\* mutant: the Digest arm writes the DIGEST token twice, dropping the credential
ACL_write_token(self, buf) ==
    LET b1 == write_u32(self.perms, buf)
    IN  CASE self.scheme.tag = "World" ->
                write_string(ANYONE, write_string(WORLD, b1))
          [] self.scheme.tag = "IP" ->
                write_string(IpAddr_to_string(self.scheme.addr), write_string(IP, b1))
          [] self.scheme.tag = "Digest" ->
                write_string(DIGEST, write_string(DIGEST, b1))

ACL_write(self, buf) ==
    LET b1 == write_u32(self.perms, buf)
    IN  CASE self.scheme.tag = "World" ->
                write_string(ANYONE, write_string(WORLD, b1))
          [] self.scheme.tag = "IP" ->
                write_string(IpAddr_to_string(self.scheme.addr), write_string(IP, b1))
          [] self.scheme.tag = "Digest" ->
                write_string(self.scheme.info, write_string(DIGEST, b1))

ACL_default == ACL(AsU32(Perms_All), Scheme_World, ANYONE)

ACL_world_acl == <<ACL_default>>

\* write_vec over a Vec<ACL>: the count, then each element's own write
RECURSIVE write_each_ACL(_, _)
write_each_ACL(v, buf) ==
    IF v = <<>> THEN buf ELSE write_each_ACL(Tail(v), ACL_write(Head(v), buf))

write_vec_ACL(v, buf) == write_each_ACL(v, write_len(Len(v), buf))

---------------------------------------------------------------------------
(* The request payload types, their constructors and their writes. *)

RequestHeader_new(xid, rtype) == [t |-> "RequestHeader", xid |-> xid, rtype |-> rtype]

\* mutant: the write starts from a cleared buffer
RequestHeader_write_clear(self, buf) == write_i32(self.rtype, write_i32(self.xid, <<>>))

RequestHeader_write(self, buf) == write_i32(self.rtype, write_i32(self.xid, buf))

\* mutant: an empty password instead of no password
ConnectRequest_new_empty(session_timeout) ==
    [t |-> "ConnectRequest", protocol_version |-> 0, last_zxid_seen |-> 0,
     time_out |-> session_timeout, session_id |-> 0, passwd |-> Some(<<>>),
     read_only |-> FALSE]

ConnectRequest_new(session_timeout) ==
    [t |-> "ConnectRequest", protocol_version |-> 0, last_zxid_seen |-> 0,
     time_out |-> session_timeout, session_id |-> 0, passwd |-> None,
     read_only |-> FALSE]

ConnectRequest_write(self, buf) ==
    LET b1 == write_i32(self.protocol_version, buf)
        b2 == write_i64(self.last_zxid_seen, b1)
        b3 == write_u32(self.time_out, b2)
        b4 == write_i64(self.session_id, b3)
        b5 == write_slice_option(self.passwd, b4)
    IN  write_bool(self.read_only, b5)

CreateRequest_new(path) ==
    [t |-> "CreateRequest", path |-> path, data |-> None, acl |-> ACL_world_acl,
     flags |-> CreateMode_as_i32("Persistent")]

CreateRequest_new_full(path, data, acl, create_mode) ==
    [t |-> "CreateRequest", path |-> path,
     data |-> IF IsSome(data) THEN Some(Unwrap(data)) ELSE None,
     acl |-> acl, flags |-> CreateMode_as_i32(create_mode)]

\* mutant: the create-mode flags are not written
CreateRequest_write_noflags(self, buf) ==
    LET b1 == write_string(self.path, buf)
        b2 == write_slice_option(self.data, b1)
    IN  write_vec_ACL(self.acl, b2)

\* mutant: the data is written as required bytes, absent data as empty
CreateRequest_write_slice(self, buf) ==
    LET b1 == write_string(self.path, buf)
        b2 == write_slice(IF IsSome(self.data) THEN Unwrap(self.data) ELSE <<>>, b1)
        b3 == write_vec_ACL(self.acl, b2)
    IN  write_i32(self.flags, b3)

\* mutant: only the first ACL of the list is written after the count
CreateRequest_write_first(self, buf) ==
    LET b1 == write_string(self.path, buf)
        b2 == write_slice_option(self.data, b1)
        b3 == write_each_ACL(IF self.acl = <<>> THEN <<>> ELSE <<Head(self.acl)>>,
                             write_len(Len(self.acl), b2))
    IN  write_i32(self.flags, b3)

CreateRequest_write(self, buf) ==
    LET b1 == write_string(self.path, buf)
        b2 == write_slice_option(self.data, b1)
        b3 == write_vec_ACL(self.acl, b2)
    IN  write_i32(self.flags, b3)

DeleteRequest_new(path, version) ==
    [t |-> "DeleteRequest", path |-> path, version |-> version]

DeleteRequest_write(self, buf) == write_i32(self.version, write_string(self.path, buf))

SetDataRequest_new(path, data, version) ==
    [t |-> "SetDataRequest", path |-> path, data |-> data, version |-> version]

\* mutant: empty data is written as absent
SetDataRequest_write_opt(self, buf) ==
    LET b1 == write_string(self.path, buf)
        b2 == write_slice_option(IF self.data = <<>> THEN None ELSE Some(self.data), b1)
    IN  write_i32(self.version, b2)

SetDataRequest_write(self, buf) ==
    LET b1 == write_string(self.path, buf)
        b2 == write_slice(self.data, b1)
    IN  write_i32(self.version, b2)

PathAndWatchRequest_new(path, watch) ==
    [t |-> "PathAndWatchRequest", path |-> path, watch |-> watch]

PathAndWatchRequest_write(self, buf) == write_bool(self.watch, write_string(self.path, buf))

PathRequest_new(path) == [t |-> "PathRequest", path |-> path]

PathRequest_write(self, buf) == write_string(self.path, buf)

Ok == "Ok"

---------------------------------------------------------------------------
(* The request envelope. *)

DEATH_PTYPE == -1

\* mutant: an empty packet is given the death type
ReqPacket_new_empty_death(rh, req) ==
    [ptype |-> IF rh = None /\ req = None THEN DEATH_PTYPE ELSE 0, rh |-> rh, req |-> req]

ReqPacket_new(rh, req) == [ptype |-> 0, rh |-> rh, req |-> req]

\* mutant: the sentinel carries the packet type of a request
ReqPacket_death_request_zero == [ptype |-> 0, rh |-> None, req |-> None]

ReqPacket_death_request == [ptype |-> DEATH_PTYPE, rh |-> None, req |-> None]

---------------------------------------------------------------------------
(* Inputs. *)

\* all sequences over S of length at most n
SeqsUpTo(S, n) == UNION {[1..k -> S] : k \in 0..n}

P_EMPTY == <<>>                          \* ""
P_A     == <<47, 97>>                    \* "/a"
P_AB    == <<47, 97, 47, 98>>            \* "/a/b"
HELLO   == <<104, 101, 108, 108, 111>>   \* "hello"
USERPW  == <<117, 58, 112>>              \* "u:p"

Paths == {P_EMPTY, P_A, P_AB}

I32s == {-2147483647 - 1, -1, 0, 3, 2147483647}

U32s == {U32(0, 0), U32(0, 31), U32(0, 10000), U32(32768, 0), U32(65535, 65535)}

Datas == SeqsUpTo({0, 255}, MaxData)

OptDatas == {None} \cup {Some(d) : d \in Datas}

IpAddrs ==
    {V4(127, 0, 0, 1), V4(10, 200, 3, 255),
     V6(<<0, 0, 0, 0, 0, 0, 0, 1>>),
     V6(<<8193, 3512, 0, 0, 1, 0, 0, 1>>),
     V6(<<0, 0, 0, 0, 0, 65535, 2560, 513>>),
     V6(<<65152, 0, 1, 2, 3, 4, 5, 6>>)}

Schemes ==
    {Scheme_World} \cup {Scheme_IP(a) : a \in IpAddrs}
        \cup {Scheme_Digest(USERPW), Scheme_Digest(P_EMPTY)}

Ids == {ANYONE, P_EMPTY, USERPW}

ACLs == {ACL(p, s, i) : p \in U32s, s \in Schemes, i \in Ids}

\* the entries the ACL lists of a CreateRequest are built from
AclPool ==
    {ACL_default,
     ACL(U32(0, 1), Scheme_World, USERPW),
     ACL(U32(0, 31), Scheme_IP(V4(127, 0, 0, 1)), ANYONE),
     ACL(U32(0, 4), Scheme_IP(V6(<<8193, 3512, 0, 0, 1, 0, 0, 1>>)), P_EMPTY),
     ACL(U32(65535, 65535), Scheme_Digest(USERPW), USERPW)}

AclLists == SeqsUpTo(AclPool, MaxAcl)

\* The inputs of the single-write specification: every constructor over its
\* whole input set, one write per buffer.
Full ==
    [lim |-> 1, bufs |-> {<<>>}, paths |-> Paths, i32s |-> I32s, u32s |-> U32s,
     datas |-> Datas \cup {HELLO}, optdatas |-> OptDatas, acls |-> ACLs,
     acllists |-> AclLists, modes |-> CreateMode]

\* The inputs of the repeated-write specification: few values of every type,
\* MaxWrites writes onto one buffer that may start non-empty.
Few ==
    [lim |-> MaxWrites, bufs |-> {<<>>, <<7, 0>>}, paths |-> {P_A}, i32s |-> {-1},
     u32s |-> {U32(0, 10000)}, datas |-> {<<>>, <<255>>}, optdatas |-> {Some(<<0>>)},
     acls |-> {ACL(U32(0, 1), Scheme_Digest(USERPW), P_EMPTY)},
     acllists |-> {<<>>, <<ACL_default>>}, modes |-> {"Ephemeral"}]

---------------------------------------------------------------------------
(* The encoding state machine: construct a value, write it into the buffer. *)

NoValue == [t |-> "none"]
NoCall == [fn |-> "none", args |-> <<>>]

chanvars == <<chan, enq, processed, net, worker>>

InitEnc(I) ==
    /\ cur = NoValue
    /\ ctor = NoCall
    /\ b0 \in I.bufs
    /\ b = b0
    /\ calls = <<>>
    /\ ret = "none"
    /\ chan = <<>> /\ enq = <<>> /\ processed = <<>> /\ net = <<>>
    /\ worker = "idle"

\* a caller may build the next value: a value is built once and serialized
\* once, and at most I.lim values are written
CanConstruct(I) ==
    /\ Len(calls) < I.lim
    /\ cur = NoValue \/ (calls # <<>> /\ calls[Len(calls)] = cur)

\* a caller builds the next value to write
Construct(v, by, args) ==
    /\ cur' = v
    /\ ctor' = [fn |-> by, args |-> args]
    /\ UNCHANGED <<b, b0, calls, ret, chanvars>>

\* a caller's write of the current value has run to its return
Written(I, buf) ==
    /\ Len(calls) < I.lim
    /\ b' = buf
    /\ calls' = Append(calls, cur)
    /\ ret' = Ok
    /\ UNCHANGED <<cur, ctor, b0, chanvars>>

New_RequestHeader(I) ==
    /\ CanConstruct(I)
    /\ \E x \in I.i32s, r \in I.i32s :
          Construct(RequestHeader_new(x, r), "RequestHeader::new", <<x, r>>)

New_ConnectRequest(I) ==
    /\ CanConstruct(I)
    /\ \E t \in I.u32s :
          Construct(ConnectRequest_new(t), "ConnectRequest::new", <<t>>)

New_ACL(I) ==
    /\ CanConstruct(I)
    /\ \E a \in I.acls : Construct(a, "ACL", <<a.perms, a.scheme, a.id>>)

New_ACL_default(I) ==
    /\ CanConstruct(I)
    /\ Construct(ACL_default, "ACL::default", <<>>)

New_CreateRequest(I) ==
    /\ CanConstruct(I)
    /\ \E p \in I.paths :
          Construct(CreateRequest_new(p), "CreateRequest::new", <<p>>)

New_CreateRequest_full(I) ==
    /\ CanConstruct(I)
    /\ \E p \in I.paths, d \in I.optdatas, a \in I.acllists, m \in I.modes :
          Construct(CreateRequest_new_full(p, d, a, m), "CreateRequest::new_full",
                    <<p, d, a, m>>)

New_DeleteRequest(I) ==
    /\ CanConstruct(I)
    /\ \E p \in I.paths, v \in I.i32s :
          Construct(DeleteRequest_new(p, v), "DeleteRequest::new", <<p, v>>)

New_SetDataRequest(I) ==
    /\ CanConstruct(I)
    /\ \E p \in I.paths, d \in I.datas, v \in I.i32s :
          Construct(SetDataRequest_new(p, d, v), "SetDataRequest::new", <<p, d, v>>)

New_PathAndWatchRequest(I) ==
    /\ CanConstruct(I)
    /\ \E p \in I.paths, w \in BOOLEAN :
          Construct(PathAndWatchRequest_new(p, w), "PathAndWatchRequest::new",
                    <<p, w>>)

New_PathRequest(I) ==
    /\ CanConstruct(I)
    /\ \E p \in I.paths : Construct(PathRequest_new(p), "PathRequest::new", <<p>>)

Write_RequestHeader(I) ==
    cur.t = "RequestHeader" /\ Written(I, RequestHeader_write(cur, b))

Write_ConnectRequest(I) ==
    cur.t = "ConnectRequest" /\ Written(I, ConnectRequest_write(cur, b))

Write_ACL(I) ==
    cur.t = "ACL" /\ Written(I, ACL_write(cur, b))

Write_CreateRequest(I) ==
    cur.t = "CreateRequest" /\ Written(I, CreateRequest_write(cur, b))

Write_DeleteRequest(I) ==
    cur.t = "DeleteRequest" /\ Written(I, DeleteRequest_write(cur, b))

Write_SetDataRequest(I) ==
    cur.t = "SetDataRequest" /\ Written(I, SetDataRequest_write(cur, b))

Write_PathAndWatchRequest(I) ==
    cur.t = "PathAndWatchRequest" /\ Written(I, PathAndWatchRequest_write(cur, b))

Write_PathRequest(I) ==
    cur.t = "PathRequest" /\ Written(I, PathRequest_write(cur, b))

NextEnc(I) ==
    \/ New_RequestHeader(I)
    \/ New_ConnectRequest(I)
    \/ New_ACL(I)
    \/ New_ACL_default(I)
    \/ New_CreateRequest(I)
    \/ New_CreateRequest_full(I)
    \/ New_DeleteRequest(I)
    \/ New_SetDataRequest(I)
    \/ New_PathAndWatchRequest(I)
    \/ New_PathRequest(I)
    \/ Write_RequestHeader(I)
    \/ Write_ConnectRequest(I)
    \/ Write_ACL(I)
    \/ Write_CreateRequest(I)
    \/ Write_DeleteRequest(I)
    \/ Write_SetDataRequest(I)
    \/ Write_PathAndWatchRequest(I)
    \/ Write_PathRequest(I)

Init == InitEnc(Full)
Next == NextEnc(Full)
Spec == Init /\ [][Next]_vars

InitSeq == InitEnc(Few)
NextSeq == NextEnc(Few)
SpecSeq == InitSeq /\ [][NextSeq]_vars

---------------------------------------------------------------------------
(* The outgoing channel and the worker draining it. *)

\* the sender's side: the session layer wraps a header and a pre-serialized
\* payload, or asks for shutdown
Headers == {None, Some(RequestHeader_new(Len(enq) + 1, 3))}

Payloads == {None, Some(PathRequest_write(PathRequest_new(P_A), <<>>))}

InitChan ==
    /\ cur = NoValue /\ ctor = NoCall
    /\ b0 = <<>> /\ b = <<>> /\ calls = <<>> /\ ret = "none"
    /\ chan = <<>> /\ enq = <<>> /\ processed = <<>> /\ net = <<>>
    /\ worker = "running"

\* the model enqueues at most MaxQueue packets
CanSend == Len(enq) < MaxQueue

Enqueue(p, by) ==
    /\ chan' = Append(chan, p)
    /\ enq' = Append(enq, [pkt |-> p, by |-> by])
    /\ UNCHANGED <<cur, ctor, b, b0, calls, ret, processed, net, worker>>

SendRequest ==
    /\ CanSend
    /\ \E rh \in Headers, req \in Payloads : Enqueue(ReqPacket_new(rh, req), "new")

SendDeath ==
    /\ CanSend
    /\ Enqueue(ReqPacket_death_request, "death_request")

\* header (if present) then payload (if present), as one frame
Frame(p) ==
    (IF IsSome(p.rh) THEN RequestHeader_write(Unwrap(p.rh), <<>>) ELSE <<>>)
        \o (IF IsSome(p.req) THEN Unwrap(p.req) ELSE <<>>)

\* one turn of the worker's loop: take the next packet; stop on the death
\* sentinel, otherwise write the packet to the network
WorkerStep ==
    /\ worker = "running"
    /\ chan # <<>>
    /\ chan' = Tail(chan)
    /\ IF Head(chan).ptype = DEATH_PTYPE
       THEN /\ worker' = "terminated"
            /\ UNCHANGED <<processed, net>>
       ELSE /\ processed' = Append(processed, Head(chan))
            /\ net' = Append(net, Frame(Head(chan)))
            /\ UNCHANGED worker
    /\ UNCHANGED <<cur, ctor, b, b0, calls, ret, enq>>

NextChan == SendRequest \/ SendDeath \/ WorkerStep

SpecChan == InitChan /\ [][NextChan]_vars

---------------------------------------------------------------------------
(* The wire format the service expects (big-endian, length-prefixed),      *)
(* written out independently of the writers above.                         *)

\* the n low bytes of v, two's complement, most significant first
RECURSIVE WireInt(_, _)
WireInt(v, n) == IF n = 0 THEN <<>> ELSE WireInt(v \div 256, n - 1) \o <<v % 256>>

WireU32(v) == WireInt(v[1], 2) \o WireInt(v[2], 2)

WireBytes(d) == WireInt(Len(d), 4) \o d

WireNull == <<255, 255, 255, 255>>

WireOptBytes(o) == IF o = None THEN WireNull ELSE WireBytes(o[1])

\* the scheme-name token and the identity string of a scheme
WireSchemeName(sc) ==
    CASE sc.tag = "World"  -> <<119, 111, 114, 108, 100>>
      [] sc.tag = "IP"     -> <<105, 112>>
      [] sc.tag = "Digest" -> <<100, 105, 103, 101, 115, 116>>

WireIdentity(sc) ==
    CASE sc.tag = "World"  -> <<97, 110, 121, 111, 110, 101>>
      [] sc.tag = "IP"     -> IpAddr_to_string(sc.addr)
      [] sc.tag = "Digest" -> sc.info

WireACL(a) ==
    WireU32(a.perms) \o WireBytes(WireSchemeName(a.scheme))
        \o WireBytes(WireIdentity(a.scheme))

RECURSIVE Concat(_)
Concat(ss) == IF ss = <<>> THEN <<>> ELSE Head(ss) \o Concat(Tail(ss))

WireSeqACL(v) == WireInt(Len(v), 4) \o Concat([i \in 1..Len(v) |-> WireACL(v[i])])

\* the value whose write filled b, in the single-write specification
Wrote(t) == calls # <<>> /\ calls[1].t = t

\* b from position i on
From(buf, i) == SubSeq(buf, i, Len(buf))

---------------------------------------------------------------------------
(* C1: writing an ACL whose scheme is World appends exactly the permission *)
(* as a 4-byte big-endian u32, then the length-prefixed string "world",    *)
(* then the length-prefixed string "anyone", whatever the id field holds.  *)
C1_WorldAclBytes ==
    (Wrote("ACL") /\ calls[1].scheme.tag = "World") =>
        b = <<calls[1].perms[1] \div 256, calls[1].perms[1] % 256,
              calls[1].perms[2] \div 256, calls[1].perms[2] % 256>>
            \o <<0, 0, 0, 5, 119, 111, 114, 108, 100>>
            \o <<0, 0, 0, 6, 97, 110, 121, 111, 110, 101>>

C1_Witness ==
    /\ Wrote("ACL") /\ ret = Ok
    /\ calls[1].scheme.tag = "World"
    /\ calls[1].id = USERPW
    /\ calls[1].perms = U32(65535, 65535)

---------------------------------------------------------------------------
(* C2: a CreateRequest, from either constructor, is written as the         *)
(* length-prefixed path, the optional-bytes data, the ACL sequence and     *)
(* last the create-mode flags as an i32; one built by CreateRequest::new   *)
(* carries absent data (-1), the single world ACL and the persistent code. *)
C2_CreateLayout ==
    Wrote("CreateRequest") =>
        /\ b = WireBytes(calls[1].path) \o WireOptBytes(calls[1].data)
               \o WireSeqACL(calls[1].acl) \o WireInt(calls[1].flags, 4)
        /\ ctor.fn = "CreateRequest::new" =>
               b = WireBytes(calls[1].path)
                   \o <<255, 255, 255, 255>>
                   \o <<0, 0, 0, 1>>
                   \o <<0, 0, 0, 31>>
                   \o <<0, 0, 0, 5, 119, 111, 114, 108, 100>>
                   \o <<0, 0, 0, 6, 97, 110, 121, 111, 110, 101>>
                   \o <<0, 0, 0, 0>>

C2_Witness ==
    /\ Wrote("CreateRequest") /\ ret = Ok
    /\ ctor.fn = "CreateRequest::new_full"
    /\ calls[1].path = P_AB
    /\ calls[1].data = Some(<<0, 255>>)
    /\ Len(calls[1].acl) = 2
    /\ calls[1].flags = 3

---------------------------------------------------------------------------
(* C4: ConnectRequest::new(t) serializes to exactly 29 bytes: protocol     *)
(* version 0 (i32), last-seen zxid 0 (i64), t (u32), session id 0 (i64),   *)
(* the password length -1 with no password bytes, one read-only byte 0.    *)
C4_ConnectBytes ==
    Wrote("ConnectRequest") =>
        /\ Len(b) = 29
        /\ b = <<0, 0, 0, 0>>
               \o <<0, 0, 0, 0, 0, 0, 0, 0>>
               \o WireU32(calls[1].time_out)
               \o <<0, 0, 0, 0, 0, 0, 0, 0>>
               \o <<255, 255, 255, 255>>
               \o <<0>>

C4_Witness ==
    /\ Wrote("ConnectRequest") /\ ret = Ok
    /\ calls[1] = ConnectRequest_new(U32(0, 10000))
    /\ SubSeq(b, 13, 16) = <<0, 0, 39, 16>>

---------------------------------------------------------------------------
(* C5: an optional-bytes field holding Some(d) is written as len(d) (i32)  *)
(* followed by d, one holding None as the 4 bytes of -1 and nothing else,  *)
(* and the two differ for every d, the empty d included.  The fields are   *)
(* the data of a CreateRequest (after its path) and the password of a      *)
(* ConnectRequest (after the 24 bytes before it).                          *)
DataAt == 4 + Len(calls[1].path) + 1

C5_OptionalBytes ==
    /\ Wrote("CreateRequest") =>
          LET r    == calls[1]
              rest == WireSeqACL(r.acl) \o WireInt(r.flags, 4)
          IN  IF r.data = None
              THEN /\ SubSeq(b, DataAt, DataAt + 3) = <<255, 255, 255, 255>>
                   /\ From(b, DataAt + 4) = rest
              ELSE /\ SubSeq(b, DataAt, DataAt + 3) = WireInt(Len(r.data[1]), 4)
                   /\ SubSeq(b, DataAt + 4, DataAt + 3 + Len(r.data[1])) = r.data[1]
                   /\ From(b, DataAt + 4 + Len(r.data[1])) = rest
                   /\ SubSeq(b, DataAt, DataAt + 3) # <<255, 255, 255, 255>>
    /\ Wrote("ConnectRequest") =>
          /\ calls[1].passwd = None
          /\ SubSeq(b, 25, 28) = <<255, 255, 255, 255>>
          /\ Len(b) = 29

C5_Witness ==
    /\ Wrote("CreateRequest") /\ ret = Ok
    /\ calls[1].data = Some(<<>>)
    /\ SubSeq(b, DataAt, DataAt + 3) = <<0, 0, 0, 0>>

---------------------------------------------------------------------------
(* C8: SetDataRequest::new(path, d, v) serializes to the length-prefixed   *)
(* path, then len(d) as an i32 followed by d, then v as an i32; the length *)
(* field is never -1 and an empty d is written as length 0 with no bytes;  *)
(* ("/a", "hello", 3) gives "/a" prefixed, i32(5) + hello, i32(3).         *)
C8_SetDataBytes ==
    Wrote("SetDataRequest") =>
        LET r == calls[1]
        IN  /\ b = WireBytes(r.path) \o WireInt(Len(r.data), 4) \o r.data
                   \o WireInt(r.version, 4)
            /\ SubSeq(b, DataAt, DataAt + 3) # <<255, 255, 255, 255>>
            /\ r.data = <<>> =>
                  /\ SubSeq(b, DataAt, DataAt + 3) = <<0, 0, 0, 0>>
                  /\ Len(b) = 4 + Len(r.path) + 4 + 4
            /\ r = SetDataRequest_new(P_A, HELLO, 3) =>
                  b = <<0, 0, 0, 2, 47, 97>>
                      \o <<0, 0, 0, 5, 104, 101, 108, 108, 111>>
                      \o <<0, 0, 0, 3>>

C8_Witness ==
    /\ Wrote("SetDataRequest") /\ ret = Ok
    /\ calls[1] = SetDataRequest_new(P_A, HELLO, 3)
    /\ Len(b) = 19

---------------------------------------------------------------------------
(* C9: the ACL field of a CreateRequest carrying a list of n ACLs begins   *)
(* with n as an i32, followed by each element's own ACL encoding in list   *)
(* order; for n = 0 it is exactly 4 zero bytes.                            *)
AclAt == DataAt + Len(WireOptBytes(calls[1].data))

C9_AclSequence ==
    Wrote("CreateRequest") =>
        LET v     == calls[1].acl
            field == SubSeq(b, AclAt, Len(b) - 4)
        IN  /\ SubSeq(field, 1, 4) = WireInt(Len(v), 4)
            /\ From(field, 5) = Concat([i \in 1..Len(v) |-> ACL_write(v[i], <<>>)])
            /\ Len(v) = 0 => field = <<0, 0, 0, 0>>

C9_Witness ==
    /\ Wrote("CreateRequest") /\ ret = Ok
    /\ Len(calls[1].acl) = 2
    /\ calls[1].acl[1].scheme.tag = "Digest"
    /\ calls[1].acl[2].scheme.tag = "IP"

---------------------------------------------------------------------------
(* A deserializer for the same wire format.  A reader takes the bytes left *)
(* and yields [ok, val, rest]; it fails on input that is too short or      *)
(* malformed.                                                              *)

Fail == [ok |-> FALSE, val |-> <<>>, rest |-> <<>>]
Read(v, rest) == [ok |-> TRUE, val |-> v, rest |-> rest]

rd_i32(buf) ==
    IF Len(buf) < 4 THEN Fail
    ELSE Read((IF buf[1] >= 128 THEN buf[1] - 256 ELSE buf[1]) * 16777216
                  + buf[2] * 65536 + buf[3] * 256 + buf[4],
              From(buf, 5))

rd_u32(buf) ==
    IF Len(buf) < 4 THEN Fail
    ELSE Read(<<buf[1] * 256 + buf[2], buf[3] * 256 + buf[4]>>, From(buf, 5))

rd_bytes(buf) ==
    LET n == rd_i32(buf)
    IN  IF ~n.ok THEN Fail
        ELSE IF n.val < 0 \/ n.val > Len(n.rest) THEN Fail
        ELSE Read(SubSeq(n.rest, 1, n.val), From(n.rest, n.val + 1))

rd_optbytes(buf) ==
    LET n == rd_i32(buf)
        d == rd_bytes(buf)
    IN  IF ~n.ok THEN Fail
        ELSE IF n.val = -1 THEN Read(None, n.rest)
        ELSE IF ~d.ok THEN Fail
        ELSE Read(Some(d.val), d.rest)

\* text to address: the inverse of Display for IpAddr
RECURSIVE Split(_, _)
Split(s, c) ==
    IF \E i \in 1..Len(s) : s[i] = c
    THEN LET i == CHOOSE i \in 1..Len(s) : s[i] = c /\ \A j \in 1..(i - 1) : s[j] # c
         IN  <<SubSeq(s, 1, i - 1)>> \o Split(From(s, i + 1), c)
    ELSE <<s>>

RECURSIVE DecVal(_)
DecVal(s) == IF s = <<>> THEN 0 ELSE DecVal(SubSeq(s, 1, Len(s) - 1)) * 10 + s[Len(s)] - 48

IsOctet(s) ==
    /\ Len(s) \in 1..3
    /\ \A i \in 1..Len(s) : s[i] \in 48..57
    /\ Len(s) = 1 \/ s[1] # 48
    /\ DecVal(s) <= 255

HexVal(c) == IF c <= 57 THEN c - 48 ELSE c - 87

RECURSIVE HexSeqVal(_)
HexSeqVal(s) ==
    IF s = <<>> THEN 0 ELSE HexSeqVal(SubSeq(s, 1, Len(s) - 1)) * 16 + HexVal(s[Len(s)])

IsGroup(s) ==
    /\ Len(s) \in 1..4
    /\ \A i \in 1..Len(s) : s[i] \in (48..57) \cup (97..102)

parse_v4(s) ==
    LET parts == Split(s, 46)
    IN  IF Len(parts) = 4 /\ \A i \in 1..4 : IsOctet(parts[i])
        THEN Some(V4(DecVal(parts[1]), DecVal(parts[2]), DecVal(parts[3]),
                     DecVal(parts[4])))
        ELSE None

\* the segments written by a ':'-separated run of groups, the last of which
\* may be a dotted IPv4 address; None when a group is malformed
RECURSIVE Segments(_)
Segments(gs) ==
    IF gs = <<>> THEN Some(<<>>)
    ELSE IF Len(gs) = 1 /\ parse_v4(gs[1]) # None
    THEN LET o == Unwrap(parse_v4(gs[1])).o
         IN  Some(<<o[1] * 256 + o[2], o[3] * 256 + o[4]>>)
    ELSE IF ~IsGroup(Head(gs)) THEN None
    ELSE LET r == Segments(Tail(gs))
         IN  IF r = None THEN None ELSE Some(<<HexSeqVal(Head(gs))>> \o Unwrap(r))

Groups(s) == IF s = <<>> THEN <<>> ELSE Split(s, 58)

parse_v6(s) ==
    IF \E k \in 1..(Len(s) - 1) : s[k] = 58 /\ s[k + 1] = 58
    THEN LET k == CHOOSE k \in 1..(Len(s) - 1) : s[k] = 58 /\ s[k + 1] = 58
             l == Segments(Groups(SubSeq(s, 1, k - 1)))
             r == Segments(Groups(From(s, k + 2)))
         IN  IF l = None \/ r = None THEN None
             ELSE IF Len(Unwrap(l)) + Len(Unwrap(r)) > 7 THEN None
             ELSE Some(V6(Unwrap(l)
                          \o [i \in 1..(8 - Len(Unwrap(l)) - Len(Unwrap(r))) |-> 0]
                          \o Unwrap(r)))
    ELSE LET a == Segments(Groups(s))
         IN  IF a = None THEN None
             ELSE IF Len(Unwrap(a)) # 8 THEN None
             ELSE Some(V6(Unwrap(a)))

parse_ip(s) == IF \E i \in 1..Len(s) : s[i] = 58 THEN parse_v6(s) ELSE parse_v4(s)

\* the scheme a scheme-name token and an identity string stand for
rd_scheme(name, ident) ==
    IF name = <<119, 111, 114, 108, 100>> THEN Some(Scheme_World)
    ELSE IF name = <<100, 105, 103, 101, 115, 116>> THEN Some(Scheme_Digest(ident))
    ELSE IF name = <<105, 112>> /\ parse_ip(ident) # None
    THEN Some(Scheme_IP(Unwrap(parse_ip(ident))))
    ELSE None

rd_ACL(buf) ==
    LET p  == rd_u32(buf)
        nm == rd_bytes(p.rest)
        id == rd_bytes(nm.rest)
        sc == rd_scheme(nm.val, id.val)
    IN  IF ~p.ok THEN Fail
        ELSE IF ~nm.ok THEN Fail
        ELSE IF ~id.ok THEN Fail
        ELSE IF sc = None THEN Fail
        ELSE Read(ACL(p.val, Unwrap(sc), id.val), id.rest)

RECURSIVE rd_ACLs(_, _)
rd_ACLs(buf, n) ==
    IF n = 0 THEN Read(<<>>, buf)
    ELSE LET a == rd_ACL(buf)
             r == rd_ACLs(a.rest, n - 1)
         IN  IF ~a.ok THEN Fail
             ELSE IF ~r.ok THEN Fail
             ELSE Read(<<a.val>> \o r.val, r.rest)

rd_CreateRequest(buf) ==
    LET path  == rd_bytes(buf)
        data  == rd_optbytes(path.rest)
        n     == rd_i32(data.rest)
        acl   == rd_ACLs(n.rest, n.val)
        flags == rd_i32(acl.rest)
    IN  IF ~path.ok THEN Fail
        ELSE IF ~data.ok THEN Fail
        ELSE IF ~n.ok THEN Fail
        ELSE IF n.val < 0 THEN Fail
        ELSE IF ~acl.ok THEN Fail
        ELSE IF ~flags.ok THEN Fail
        ELSE IF \A m \in CreateMode : CreateMode_as_i32(m) # flags.val THEN Fail
        ELSE Read([path |-> path.val, data |-> data.val, acl |-> acl.val,
                   mode |-> CHOOSE m \in CreateMode : CreateMode_as_i32(m) = flags.val],
                  flags.rest)

---------------------------------------------------------------------------
(* C3 as stated: decoding the bytes written for CreateRequest::new_full(   *)
(* path, data, acl, mode) recovers path, data, acl (every entry's          *)
(* permission, scheme and identity) and mode unchanged.                    *)
FromNewFull == Wrote("CreateRequest") /\ ctor.fn = "CreateRequest::new_full"

Decoded == rd_CreateRequest(b)

C3_RoundTripAll ==
    FromNewFull =>
        /\ Decoded.ok
        /\ Decoded.rest = <<>>
        /\ Decoded.val = [path |-> ctor.args[1], data |-> ctor.args[2],
                          acl |-> ctor.args[3], mode |-> ctor.args[4]]

(* C3 amended: the decoder recovers path, data, mode, the number of ACL    *)
(* entries and every entry's permission and scheme; an entry's id field is *)
(* not transmitted: the identity read back is the one the scheme fixes,    *)
(* and the bytes are those written with every id field emptied.            *)
C3_RoundTripButId ==
    FromNewFull =>
        /\ Decoded.ok
        /\ Decoded.rest = <<>>
        /\ Decoded.val.path = ctor.args[1]
        /\ Decoded.val.data = ctor.args[2]
        /\ Decoded.val.mode = ctor.args[4]
        /\ Len(Decoded.val.acl) = Len(ctor.args[3])
        /\ \A i \in 1..Len(ctor.args[3]) :
              /\ Decoded.val.acl[i].perms = ctor.args[3][i].perms
              /\ Decoded.val.acl[i].scheme = ctor.args[3][i].scheme
              /\ Decoded.val.acl[i].id = WireIdentity(ctor.args[3][i].scheme)
        /\ b = CreateRequest_write(
                   CreateRequest_new_full(ctor.args[1], ctor.args[2],
                       [i \in 1..Len(ctor.args[3]) |->
                           [ctor.args[3][i] EXCEPT !.id = <<>>]],
                       ctor.args[4]),
                   <<>>)

C3_Witness ==
    /\ FromNewFull /\ ret = Ok
    /\ Len(ctor.args[3]) = 2
    /\ ctor.args[3][1].scheme.tag = "World"
    /\ ctor.args[3][1].id # ANYONE
    /\ ctor.args[3][2].scheme.tag = "IP"
    /\ ctor.args[2] = Some(<<>>)
    /\ ctor.args[4] = "Container"
    /\ Decoded.ok

---------------------------------------------------------------------------
(* C6: a packet has packet type -1 (DEATH_PTYPE) exactly when it comes     *)
(* from ReqPacket::death_request, and then its header and payload are both *)
(* absent; ReqPacket::new never yields packet type -1, new(None, None)     *)
(* included.                                                               *)
C6_DeathPacketType ==
    \A i \in 1..Len(enq) :
        /\ enq[i].pkt.ptype = -1 <=> enq[i].by = "death_request"
        /\ enq[i].by = "death_request" =>
              enq[i].pkt.rh = None /\ enq[i].pkt.req = None
        /\ enq[i].by = "new" => enq[i].pkt.ptype # -1

C6_Witness ==
    /\ \E i \in 1..Len(enq) :
          enq[i].by = "new" /\ enq[i].pkt.rh = None /\ enq[i].pkt.req = None
    /\ \E i \in 1..Len(enq) : enq[i].by = "new" /\ enq[i].pkt.rh # None
    /\ \E i \in 1..Len(enq) : enq[i].by = "death_request"

---------------------------------------------------------------------------
(* C7: with one worker draining one FIFO channel, the requests enqueued    *)
(* before the death sentinel are processed in enqueue order, all of them   *)
(* by the time the worker has terminated; the sentinel is never written to *)
(* the network; nothing enqueued after the sentinel is processed.          *)

\* position of the first sentinel enqueued, Len(enq) + 1 when there is none
FirstDeath ==
    IF \E i \in 1..Len(enq) : enq[i].by = "death_request"
    THEN CHOOSE i \in 1..Len(enq) :
            /\ enq[i].by = "death_request"
            /\ \A j \in 1..(i - 1) : enq[j].by # "death_request"
    ELSE Len(enq) + 1

BeforeDeath == [i \in 1..(FirstDeath - 1) |-> enq[i].pkt]

C7_InOrderShutdown ==
    /\ Len(processed) <= Len(BeforeDeath)
    /\ processed = SubSeq(BeforeDeath, 1, Len(processed))
    /\ worker = "terminated" => processed = BeforeDeath
    /\ Len(net) = Len(processed)
    /\ \A i \in 1..Len(net) : net[i] = Frame(enq[i].pkt) /\ enq[i].by = "new"

C7_Witness ==
    /\ worker = "terminated"
    /\ Len(processed) = 2
    /\ processed[1] # processed[2]
    /\ Len(enq) > FirstDeath
    /\ enq[Len(enq)].by = "new"
    /\ chan # <<>>

---------------------------------------------------------------------------
(* C10: after any sequence of writes on the same buffer every call has     *)
(* returned Ok and the buffer is its initial contents followed by each     *)
(* written value's own encoding in call order; a write only appends, keeps *)
(* the bytes already in the buffer and leaves the value written unchanged. *)

\* a value's own encoding: what its write puts into an empty buffer
Encoding(v) ==
    CASE v.t = "RequestHeader"       -> RequestHeader_write(v, <<>>)
      [] v.t = "ConnectRequest"      -> ConnectRequest_write(v, <<>>)
      [] v.t = "ACL"                 -> ACL_write(v, <<>>)
      [] v.t = "CreateRequest"       -> CreateRequest_write(v, <<>>)
      [] v.t = "DeleteRequest"       -> DeleteRequest_write(v, <<>>)
      [] v.t = "SetDataRequest"      -> SetDataRequest_write(v, <<>>)
      [] v.t = "PathAndWatchRequest" -> PathAndWatchRequest_write(v, <<>>)
      [] v.t = "PathRequest"         -> PathRequest_write(v, <<>>)

C10_AppendOnly ==
    /\ [](/\ b = b0 \o Concat([i \in 1..Len(calls) |-> Encoding(calls[i])])
          /\ calls # <<>> => ret = Ok)
    /\ [][calls' # calls =>
             /\ calls' = Append(calls, cur)
             /\ cur' = cur
             /\ Len(b') >= Len(b)
             /\ SubSeq(b', 1, Len(b)) = b]_vars

C10_Witness ==
    /\ Len(calls) = 2
    /\ b0 # <<>>
    /\ calls[1].t = "CreateRequest"
    /\ calls[2].t = "RequestHeader"
    /\ ret = Ok
    /\ Len(b) > Len(b0) + 8

=============================================================================
